---- MODULE Spec2Model ----
(***************************************************************************)
(* A model of the Youtube-Backend controllers: the video controller        *)
(* (src/src/controllers/video.controller.js), the user controller          *)
(* (src/src/controllers/user.controllers.js), the media helper             *)
(* (src/src/utils/cloudinary.js) and the Subcription model                 *)
(* (src/unnamed/part_000).                                                 *)
(*                                                                         *)
(* The document store is a set of collections of documents; a document is  *)
(* a record whose DOMAIN is the set of fields it holds, so that a field    *)
(* dropped by a $project stage or never written is absent, not false.      *)
(* Every request handler is one action; its response is left in resp.      *)
(***************************************************************************)
EXTENDS Integers, Sequences, FiniteSets, TLC

\* ------------------------------------------------------------------ bounds
MaxUsers   == 2
MaxVideos  == 2
MaxJoinDocs == 2   \* like, comment and subscription documents, taken together
MaxTime    == 2
MaxHistory == 2
MaxFiles   == 6
MaxRequests == 2
MaxViews   == 3

\* The size of the $sample stage of getNextVideos and the default page size
\* of getAllVideos.
SampleSize   == 10
DefaultLimit == 10

VARIABLES
  users,         \* the "users" collection:  _id -> user document
  videos,        \* the "videos" collection: _id -> video document
  likes,         \* the "likes" collection: a set of like documents
  comments,      \* the "comments" collection: a set of comment documents
  subcriptions,  \* the collection of the Subcription model (part_000:57)
  media,         \* the media provider: the set of stored file identifiers
  nextFile,      \* the media provider's next file identifier
  nextVideo,     \* the number of the next ObjectId the videos collection gives
  now,           \* the wall clock read by new Date() and by timestamps
  resp,          \* the response of the last request
  calls,         \* the number of data-store calls the last request issued
  reqs,          \* the requests in flight: request number -> its position
                 \* in the handler and the handler's local variables
  lastView,      \* history of the run: <<viewer, video>> -> time of the most
                 \* recent updateVideoViews call that succeeded for the pair
  client         \* history of the run: user -> the refresh tokens the
                 \* responses of loginUser and refreshAccessToken have carried

storeVars == <<users, videos, likes, comments, subcriptions, media, nextFile, nextVideo>>
vars == <<users, videos, likes, comments, subcriptions, media, nextFile, nextVideo, now,
         resp, calls, reqs, lastView, client>>

\* ---------------------------------------------------------- values of JS/BSON
\* An ObjectId is <<kind, n>>; null and undefined are values of the same shape.
Null      == <<"null", 0>>
Undefined == <<"undefined", 0>>

UserOids  == {<<"user", n>>  : n \in 1..MaxUsers}
VideoOids == {<<"video", n>> : n \in 1..MaxVideos}
FileIds   == {<<"file", n>>  : n \in 1..MaxFiles}

\* A request parameter that is meant to be an id is a string. The 24 hex digits
\* of an ObjectId can be written in lower case (the form toString() produces)
\* or in upper case; both parse to the same ObjectId.
IdString(form, oid) == [form |-> form, oid |-> oid]
MalformedId == IdString("malformed", Null)
EmptyId     == IdString("empty", Null)
IdStringsOf(oids) == {IdString(f, o) : f \in {"lower", "upper"}, o \in oids}

\* mongoose isValidObjectId: any 24-digit hex string, whatever its case.
isValidObjectId(s) == s.form \in {"lower", "upper"}

\* new mongoose.Types.ObjectId(s), and the cast mongoose applies to an id string.
ObjectId(s) == s.oid

\* ObjectId.prototype.toString(): the lower-case hex string.
ObjectIdToString(oid) == IdString("lower", oid)

\* String.prototype.trim() === "" / !s?.trim()
IsBlankId(s) == s.form = "empty"

\* The BSON serializer writes an undefined array element as null.
BsonValue(v) == IF v = Undefined THEN Null ELSE v

\* Usernames as typed by clients, and String.prototype.toLowerCase on them.
Usernames == {"alice", "Alice", "bob"}
Emails    == {"a@x.io", "b@x.io"}
toLowerCase(s) ==
  CASE s = "Alice" -> "alice"
    [] OTHER       -> s

Titles == {"cats", "dogs"}

\* The path multer gives an uploaded file; undefined when no file was sent.
LocalPath  == <<"path", 1>>
LocalPaths == {LocalPath, Undefined}

\* ------------------------------------------------------------- collections
\* mongoose derives a model's collection name: lower case, pluralised.
toCollectionName(modelName) ==
  CASE modelName = "User"        -> "users"
    [] modelName = "Video"       -> "videos"
    [] modelName = "Like"        -> "likes"
    [] modelName = "Comment"     -> "comments"
    [] modelName = "Subcription" -> "subcriptions"
    [] OTHER                     -> modelName

Range(f) == {f[x] : x \in DOMAIN f}

\* The documents of the collection a $lookup stage names in "from"; a name no
\* model writes to is an empty collection.
Collection(name) ==
  CASE name = toCollectionName("User")        -> Range(users)
    [] name = toCollectionName("Video")       -> Range(videos)
    [] name = toCollectionName("Like")        -> likes
    [] name = toCollectionName("Comment")     -> comments
    [] name = toCollectionName("Subcription") -> subcriptions
    [] OTHER                                  -> {}

\* The null a query returns when no document matches, as a document without
\* fields of its own.
NullDoc == [null |-> TRUE]

\* Model.findById(id): the document, or null. An undefined or null id finds
\* nothing.
findById(coll, oid) == IF oid \in DOMAIN coll THEN coll[oid] ELSE NullDoc

\* ---------------------------------------------------------------- responses
Fail(op, status) == [op |-> op, status |-> status]
Ok(op, status, data) == [op |-> op, status |-> status, data |-> data]
NoResponse == [op |-> "none", status |-> 0]

Init ==
  /\ users = << >>
  /\ videos = << >>
  /\ likes = {}
  /\ comments = {}
  /\ subcriptions = {}
  /\ media = {}
  /\ nextFile = 1
  /\ nextVideo = 1
  /\ now = 1
  /\ resp = NoResponse
  /\ calls = 0
  /\ reqs = << >>
  /\ lastView = << >>
  /\ client = << >>

\* The wall clock advances between requests.
Tick ==
  /\ UNCHANGED client
  /\ now < MaxTime
  /\ now' = now + 1
  /\ UNCHANGED <<storeVars, resp, calls, reqs, lastView>>

\* --------------------------------------------------------------- media helper
\* uploadOnCloudinary (cloudinary.js:10-28): null for a missing path, null when
\* the provider fails, else the provider's response, here the identifier the
\* provider gave the stored file.
uploadOnCloudinary(localFilePath, providerOk, fileNo) ==
  IF localFilePath = Undefined THEN Null
  ELSE IF providerOk THEN <<"file", fileNo>>
  ELSE Null

\* The files a list of upload results left in the media store.
Stored(results) == {results[i] : i \in DOMAIN results} \ {Null}

\* deleteFromCloudinary (cloudinary.js:30-40): what the helper returns. With
\* no fileId it returns null. When the provider fails, destroy() throws and
\* the catch returns null. When the provider acknowledges, the next statement
\* reads localFilePath, which this function does not have: the ReferenceError
\* is caught and the helper returns null again. It never throws.
deleteFromCloudinary(fileId, providerOk) == Null

\* The files deleteFromCloudinary removes from the media store: the one asked
\* for, when the provider acknowledges.
Destroyed(fileId, providerOk) ==
  IF fileId # Null /\ fileId # Undefined /\ providerOk THEN {fileId} ELSE {}

\* ------------------------------------------------------------- registerUser
\* The unique indexes of the user schema on username and email: an insert
\* that repeats either is rejected by the store.
UniqueIndexOk(doc) ==
  \A u \in DOMAIN users :
    users[u].username # doc.username /\ users[u].email # doc.email

\* user.controllers.js:96-163
registerUser(username, email, avatarLocalPath, coverLocalPath, avatarOk, coverOk) ==
  LET op == "registerUser"
      existedUser == {u \in DOMAIN users :
                        users[u].username = username \/ users[u].email = email}
      avatar == uploadOnCloudinary(avatarLocalPath, avatarOk, nextFile)
      coverNo == nextFile + Cardinality(Stored(<<avatar>>))
      coverImage == uploadOnCloudinary(coverLocalPath, coverOk, coverNo)
      uploaded == Stored(<<avatar, coverImage>>)
      id == <<"user", Cardinality(DOMAIN users) + 1>>
      doc == [_id |-> id, username |-> toLowerCase(username), email |-> email,
              avatar |-> avatar, coverImage |-> coverImage,
              watchHistory |-> << >>]
  IN
  /\ UNCHANGED client
  /\ Cardinality(DOMAIN users) < MaxUsers
  /\ nextFile + 1 <= MaxFiles
  /\ UNCHANGED <<videos, likes, comments, subcriptions, nextVideo, now, reqs, lastView>>
  /\ IF username = "" \/ email = ""
     THEN resp' = Fail(op, 400) /\ calls' = 0 /\ UNCHANGED <<users, media, nextFile>>
     ELSE IF existedUser # {}
     THEN resp' = Fail(op, 409) /\ calls' = 1 /\ UNCHANGED <<users, media, nextFile>>
     ELSE IF avatarLocalPath = Undefined
     THEN resp' = Fail(op, 400) /\ calls' = 1 /\ UNCHANGED <<users, media, nextFile>>
     ELSE /\ media' = media \cup uploaded
          /\ nextFile' = nextFile + Cardinality(uploaded)
          /\ IF avatar = Null
             THEN resp' = Fail(op, 400) /\ calls' = 1 /\ UNCHANGED users
             ELSE IF ~UniqueIndexOk(doc)
             THEN resp' = Fail(op, 500) /\ calls' = 2 /\ UNCHANGED users
             ELSE /\ users' = [u \in DOMAIN users \cup {id} |->
                                 IF u = id THEN doc ELSE users[u]]
                  /\ calls' = 3
                  /\ resp' = Ok(op, 201, [_id |-> id, username |-> doc.username,
                                          email |-> email])

\* ------------------------------------------------- sessions: refresh tokens
\* user.generateRefreshToken(): a signed token that carries the _id of the
\* user and the second it is issued at. Two tokens issued for one user in the
\* same second are the same string.
generateRefreshToken(user) == <<"jwt", user._id, now>>

\* What a client can send as its refresh token: a token signed by this
\* server, a string that is no such token, or nothing.
RefreshTokens == {<<"jwt", u, t>> : u \in UserOids, t \in 1..MaxTime}
GarbageToken == <<"garbage", 0>>

\* jwt.verify(token, secret) (user.controllers.js:253-256) returns the payload
\* of a token this server has signed and throws on anything else.
Verifies(token) == token \in RefreshTokens
DecodedId(token) == token[2]

\* user.refreshToken: undefined on a document without the field.
RefreshTokenOf(user) ==
  IF "refreshToken" \in DOMAIN user THEN user.refreshToken ELSE Undefined

\* user.refreshToken = refreshToken; user.save() (user.controllers.js:83-84)
WithRefreshToken(user, refreshToken) ==
  [f \in DOMAIN user \cup {"refreshToken"} |->
     IF f = "refreshToken" THEN refreshToken ELSE user[f]]

\* generateAccessAndRefreshTokens (user.controllers.js:77-94): what it returns.
\* The access token plays no part in the store and is left out.
generateAccessAndRefreshTokens(user) == [refreshToken |-> generateRefreshToken(user)]

\* const { name } = object: undefined when the object has no such property.
Destructure(object, name) == IF name \in DOMAIN object THEN object[name] ELSE Undefined

\* The tokens the responses have carried for user u: the last one (null when
\* there is none, or after a logout) and all of them.
Held(u) == IF u \in DOMAIN client THEN client[u] ELSE [last |-> Null, issued |-> {}]
Hold(u, last) ==
  client' = [x \in DOMAIN client \cup {u} |->
               IF x # u THEN client[x]
               ELSE [last |-> last,
                     issued |-> Held(u).issued \cup (IF last = Null THEN {} ELSE {last})]]

\* user.controllers.js:165-215. passwordOk is what user.isPasswordCorrect
\* resolves to.
loginUser(username, email, passwordOk) ==
  LET op == "loginUser"
      found == {u \in DOMAIN users :
                  users[u].username = username \/ users[u].email = email}
      id == CHOOSE u \in found : \A x \in found : u[2] <= x[2]
      tokens == generateAccessAndRefreshTokens(users[id])
      refreshToken == Destructure(tokens, "refreshToken")
  IN
  /\ UNCHANGED <<videos, likes, comments, subcriptions, media, nextFile, nextVideo, now,
                 reqs, lastView>>
  /\ IF username = "" /\ email = ""
     THEN resp' = Fail(op, 400) /\ calls' = 0 /\ UNCHANGED <<users, client>>
     ELSE IF found = {}
     THEN resp' = Fail(op, 404) /\ calls' = 1 /\ UNCHANGED <<users, client>>
     ELSE IF ~passwordOk
     THEN resp' = Fail(op, 401) /\ calls' = 1 /\ UNCHANGED <<users, client>>
     ELSE /\ users' = [users EXCEPT ![id] = WithRefreshToken(@, tokens.refreshToken)]
          /\ calls' = 4
          /\ resp' = Ok(op, 200, [user |-> id, refreshToken |-> refreshToken])
          /\ Hold(id, refreshToken)

\* user.controllers.js:217-240: $set: { refreshToken: undefined }. Depending
\* on the version of mongoose the undefined value is written as null or the
\* key is dropped from the update, which then changes nothing.
logoutUser(reqUser) ==
  LET op == "logoutUser"
  IN
  /\ UNCHANGED <<videos, likes, comments, subcriptions, media, nextFile, nextVideo, now,
                 reqs, lastView>>
  /\ \/ users' = [users EXCEPT ![reqUser] = WithRefreshToken(@, Null)]
     \/ UNCHANGED users
  /\ calls' = 1
  /\ resp' = Ok(op, 200, NullDoc)
  /\ Hold(reqUser, Null)

\* user.controllers.js:242-296. Every throw inside the try, the failure of
\* jwt.verify included, is answered 401 by the catch.
refreshAccessToken(incomingRefreshToken) ==
  LET op == "refreshAccessToken"
      user == findById(users, DecodedId(incomingRefreshToken))
      tokens == generateAccessAndRefreshTokens(user)
      newRefreshToken == Destructure(tokens, "newRefreshToken")
  IN
  /\ UNCHANGED <<videos, likes, comments, subcriptions, media, nextFile, nextVideo, now,
                 reqs, lastView>>
  /\ IF incomingRefreshToken = Undefined \/ ~Verifies(incomingRefreshToken)
     THEN resp' = Fail(op, 401) /\ calls' = 0 /\ UNCHANGED <<users, client>>
     ELSE IF user = NullDoc
     THEN resp' = Fail(op, 401) /\ calls' = 1 /\ UNCHANGED <<users, client>>
     ELSE IF incomingRefreshToken # RefreshTokenOf(user)
     THEN resp' = Fail(op, 401) /\ calls' = 1 /\ UNCHANGED <<users, client>>
     ELSE /\ users' = [users EXCEPT ![user._id] = WithRefreshToken(@, tokens.refreshToken)]
          /\ calls' = 3
          /\ resp' = Ok(op, 200, [newRefreshToken |-> newRefreshToken])
          /\ IF newRefreshToken = Undefined
             THEN UNCHANGED client
             ELSE Hold(user._id, newRefreshToken)

\* ------------------------------------------------------------ publishAVideo
\* The cast mongoose applies to the isPublished string of the request body.
CastBoolean(s) == s = "true"

\* A faulty variant: only the video upload is looked at.
VideoUploadFailed(videoFile, thumbnailFile) == videoFile = Null

\* if (!videoFile || !thumbnailFile) (video.controller.js:143)
UploadFailed(videoFile, thumbnailFile) == videoFile = Null \/ thumbnailFile = Null

\* video.controller.js:111-174
publishAVideo(reqUser, title, isPublished, videoLocalPath, thumbnailLocalPath, videoOk, thumbnailOk) ==
  LET op == "publishAVideo"
      videoFile == uploadOnCloudinary(videoLocalPath, videoOk, nextFile)
      thumbNo == nextFile + Cardinality(Stored(<<videoFile>>))
      thumbnailFile == uploadOnCloudinary(thumbnailLocalPath, thumbnailOk, thumbNo)
      uploaded == Stored(<<videoFile, thumbnailFile>>)
      id == <<"video", nextVideo>>
      doc == [_id |-> id, owner |-> reqUser, title |-> title,
              isPublished |-> CastBoolean(isPublished), views |-> 0,
              createdAt |-> now,
              video |-> [fileId |-> videoFile, url |-> videoFile],
              thumbnail |-> [fileId |-> thumbnailFile, url |-> thumbnailFile]]
  IN
  /\ UNCHANGED client
  /\ nextVideo <= MaxVideos
  /\ nextFile + 1 <= MaxFiles
  /\ UNCHANGED <<users, likes, comments, subcriptions, now, reqs, lastView>>
  /\ IF title = "" \/ isPublished = ""
     THEN resp' = Fail(op, 400) /\ UNCHANGED <<videos, media, nextFile, nextVideo>>
     ELSE IF videoLocalPath = Undefined \/ thumbnailLocalPath = Undefined
     THEN \* req.files?.video[0]?.path: 401 when the request carries no files
          \* at all, a TypeError (500) when it carries files but not this one.
          /\ resp' \in {Fail(op, 401), Fail(op, 500)}
          /\ UNCHANGED <<videos, media, nextFile, nextVideo>>
     ELSE /\ media' = media \cup uploaded
          /\ nextFile' = nextFile + Cardinality(uploaded)
          /\ IF UploadFailed(videoFile, thumbnailFile)
             THEN resp' = Fail(op, 500) /\ UNCHANGED <<videos, nextVideo>>
             ELSE /\ videos' = [v \in DOMAIN videos \cup {id} |->
                                  IF v = id THEN doc ELSE videos[v]]
                  /\ nextVideo' = nextVideo + 1
                  /\ resp' = Ok(op, 201, doc)
  /\ calls' = (IF resp'.status = 201 THEN 1 ELSE 0)

\* --------------------------------------------------------- updateVideoViews
\* user.watchHistory.find((entry) => entry.video.toString() === videoId)
\* (video.controller.js:631-633): the index of the first entry whose video,
\* written as a string, is the request's string; 0 when there is none.
FindWatchHistoryEntry(watchHistory, videoId) ==
  LET hits == {i \in 1..Len(watchHistory) :
                 ObjectIdToString(watchHistory[i].video) = videoId}
  IN IF hits = {} THEN 0 ELSE CHOOSE i \in hits : \A j \in hits : i <= j

\* video.controller.js:609-655
updateVideoViews(reqUser, videoId) ==
  LET op == "updateVideoViews"
      userId == reqUser                              \* req.user?._id
      video == findById(videos, ObjectId(videoId))
      user == findById(users, userId)
      entry == FindWatchHistoryEntry(user.watchHistory, videoId)
      pushed == [user EXCEPT !.watchHistory =
                   Append(@, [video |-> ObjectId(videoId), watchedAt |-> now])]
      touched == [user EXCEPT !.watchHistory[entry].watchedAt = now]
      pair == <<userId, ObjectId(videoId)>>
  IN
  /\ UNCHANGED client
  /\ UNCHANGED <<likes, comments, subcriptions, media, nextFile, nextVideo, now, reqs>>
  /\ IF ~isValidObjectId(videoId)
     THEN resp' = Fail(op, 400) /\ calls' = 0 /\ UNCHANGED <<users, videos, lastView>>
     ELSE IF video = NullDoc
     THEN resp' = Fail(op, 404) /\ calls' = 1 /\ UNCHANGED <<users, videos, lastView>>
     ELSE IF user = NullDoc
     THEN resp' = Fail(op, 404) /\ calls' = 2 /\ UNCHANGED <<users, videos, lastView>>
     ELSE /\ lastView' = [p \in DOMAIN lastView \cup {pair} |->
                            IF p = pair THEN now ELSE lastView[p]]
          /\ IF entry = 0
             THEN /\ Len(user.watchHistory) < MaxHistory
                  /\ calls' = 4
                  /\ videos' = [videos EXCEPT ![video._id].views = @ + 1]
                  /\ users' = [users EXCEPT ![userId] = pushed]
                  /\ resp' = Ok(op, 200, [video |-> video, user |-> pushed])
             ELSE /\ users' = [users EXCEPT ![userId] = touched]
                  /\ calls' = 3
                  /\ UNCHANGED videos
                  /\ resp' = Ok(op, 200, [video |-> video, user |-> touched])

\* ------------------------------------------------- likes and subscriptions
\* The identifier the store gives a new document of a collection.
NewId(kind, coll) ==
  LET used == {d._id[2] : d \in coll}
  IN <<kind, 1 + (IF used = {} THEN 0 ELSE CHOOSE n \in used : \A m \in used : m <= n)>>

\* Like.create({video, likedBy}): an undefined likedBy is not written at all,
\* a null one is written as null. Nothing makes (video, likedBy) unique.
likeCreate(video, likedBy) ==
  LET id == NewId("like", likes)
      doc == IF likedBy = Undefined
             THEN [_id |-> id, video |-> video]
             ELSE [_id |-> id, video |-> video, likedBy |-> likedBy]
  IN
  /\ UNCHANGED client
  /\ Cardinality(likes) + Cardinality(comments) + Cardinality(subcriptions) < MaxJoinDocs
  /\ likes' = likes \cup {doc}
  /\ resp' = Ok("likeCreate", 201, doc)
  /\ calls' = 1
  /\ UNCHANGED <<users, videos, comments, subcriptions, media, nextFile, nextVideo, now,
                 reqs, lastView>>

\* Comment.create({video, ...}): a comment on a video.
commentCreate(video) ==
  LET doc == [_id |-> NewId("comment", comments), video |-> video]
  IN
  /\ UNCHANGED client
  /\ Cardinality(likes) + Cardinality(comments) + Cardinality(subcriptions) < MaxJoinDocs
  /\ comments' = comments \cup {doc}
  /\ resp' = Ok("commentCreate", 201, doc)
  /\ calls' = 1
  /\ UNCHANGED <<users, videos, likes, subcriptions, media, nextFile, nextVideo, now,
                 reqs, lastView>>

\* Subcription.create({subscriber, channel}) on the schema of part_000:47-56:
\* both references optional, no unique index.
subcriptionCreate(subscriber, channel) ==
  LET id == NewId("subcription", subcriptions)
      doc == IF subscriber = Undefined
             THEN [_id |-> id, channel |-> channel]
             ELSE [_id |-> id, channel |-> channel, subscriber |-> subscriber]
  IN
  /\ UNCHANGED client
  /\ Cardinality(likes) + Cardinality(comments) + Cardinality(subcriptions) < MaxJoinDocs
  /\ subcriptions' = subcriptions \cup {doc}
  /\ resp' = Ok("subcriptionCreate", 201, doc)
  /\ calls' = 1
  /\ UNCHANGED <<users, videos, likes, comments, media, nextFile, nextVideo, now,
                 reqs, lastView>>

\* ------------------------------------------------------ aggregation stages
\* $lookup {from, localField, foreignField}: the documents of collection
\* `from` whose foreignField equals the local value.
Lookup(from, foreignField, localValue) ==
  {d \in Collection(from) : foreignField \in DOMAIN d /\ d[foreignField] = localValue}

\* The array a path "$docs.field" evaluates to: the field's value in every
\* element that has the field (null included, a missing field skipped).
PathValues(docs, field) == {d[field] : d \in {e \in docs : field \in DOMAIN e}}

\* {$in: [value, array]} with the value serialised as BSON.
In(value, array) == BsonValue(value) \in array

\* $project {f: 1, ...}: _id and the listed fields the document has. The one
\* dotted path that meets a sub-document is "video.url", which keeps the url
\* of the video sub-document; "avatar.url" meets a string and keeps nothing.
Project(doc, fields) ==
  LET plain == [f \in DOMAIN doc \cap (fields \cup {"_id"}) |-> doc[f]]
  IN IF "video.url" \in fields /\ "video" \in DOMAIN doc
     THEN [f \in DOMAIN plain \cup {"video"} |->
             IF f = "video" THEN [url |-> doc.video.url] ELSE plain[f]]
     ELSE plain

\* $addFields {field: {$first: "$field"}}: the array in the field is replaced
\* by its first element; an empty array leaves the field missing. The arrays
\* it is used on come from a $lookup on _id, which matches at most one.
SetFirst(doc, field) ==
  IF doc[field] = {} THEN [f \in DOMAIN doc \ {field} |-> doc[f]]
  ELSE [doc EXCEPT ![field] = CHOOSE d \in doc[field] : TRUE]

\* $addFields with plain values.
AddFields(doc, new) ==
  [f \in DOMAIN doc \cup DOMAIN new |-> IF f \in DOMAIN new THEN new[f] ELSE doc[f]]

\* An array is truthy in JavaScript, the empty one too: !array is false.
NotArray(docs) == FALSE

\* !array.length
NotLength(docs) == docs = {}

\* array[0]: undefined for an empty array. A match on _id yields at most one.
UndefinedDoc == [undefined |-> TRUE]
FirstOf(docs) == IF docs = {} THEN UndefinedDoc ELSE CHOOSE d \in docs : TRUE

\* new ApiResponse(status, data, message) as JSON: undefined data is dropped.
ApiResponse(op, status, data) ==
  IF data = UndefinedDoc THEN [op |-> op, status |-> status] ELSE Ok(op, status, data)

\* ----------------------------------------------------- getVideoByIdForGuest
\* The owner sub-pipeline of video.controller.js:212-239.
GuestOwnerPipeline(user) ==
  LET subscribers == Lookup("subscriptions", "channel", user._id)
      added == AddFields(user, [subscribers |-> subscribers,
                                subscribersCount |-> Cardinality(subscribers),
                                isSubscribed |-> FALSE])
  IN Project(added, {"username", "avatar.url", "subscribersCount"})

\* The pipeline of video.controller.js:196-269, on one matched video.
GuestVideoPipeline(video) ==
  LET joined == AddFields(video,
                  [likes |-> Lookup("likes", "video", video._id),
                   owner |-> {GuestOwnerPipeline(u) :
                                u \in Lookup("users", "_id", video.owner)}])
      added == SetFirst(AddFields(joined, [likesCount |-> Cardinality(joined.likes),
                                           isLiked |-> FALSE]),
                        "owner")
  IN Project(added, {"video.url", "title", "description", "views", "createdAt",
                     "duration", "comments", "owner", "likesCount", "isLiked",
                     "isSubscribed"})

\* The response of getVideoByIdForGuest (video.controller.js:178-277) to a
\* request for videoId, as a function of the videos collection.
GuestResponseIn(videoColl, videoId) ==
  LET op == "getVideoByIdForGuest"
      matched == {v \in Range(videoColl) :
                    v._id = ObjectId(videoId) /\ v.isPublished = TRUE}
      video == {GuestVideoPipeline(v) : v \in matched}
  IN IF IsBlankId(videoId) THEN Fail(op, 400)
     ELSE IF ~isValidObjectId(videoId) THEN Fail(op, 400)
     ELSE IF NotArray(video) THEN Fail(op, 404)
     ELSE ApiResponse(op, 200, FirstOf(video))

GuestResponse(videoId) == GuestResponseIn(videos, videoId)

getVideoByIdForGuest(videoId) ==
  /\ UNCHANGED client
  /\ resp' = GuestResponse(videoId)
  /\ calls' = (IF resp'.status = 400 THEN 0 ELSE 1)
  /\ UNCHANGED <<storeVars, now, reqs, lastView>>

\* ------------------------------------------------------------- getVideoById
\* The owner sub-pipeline of video.controller.js:317-360.
OwnerPipeline(user, reqUser, isGuest) ==
  LET subscribers == Lookup("subscriptions", "channel", user._id)
      added == AddFields(user,
                 [subscribers |-> subscribers,
                  subscribersCount |-> Cardinality(subscribers),
                  isSubscribed |-> IF isGuest THEN FALSE
                                   ELSE In(reqUser, PathValues(subscribers, "subscriber"))])
  IN Project(added, {"username", "fullName", "avatar.url", "subscribersCount",
                     "isSubscribed"})

\* The pipeline of video.controller.js:301-403, on one matched video.
VideoPipeline(video, reqUser, isGuest) ==
  LET joined == AddFields(video,
                  [likes |-> Lookup("likes", "video", video._id),
                   owner |-> {OwnerPipeline(u, reqUser, isGuest) :
                                u \in Lookup("users", "_id", video.owner)}])
      added == SetFirst(AddFields(joined,
                 [likesCount |-> Cardinality(joined.likes),
                  isLiked |-> IF isGuest THEN FALSE
                              ELSE In(reqUser, PathValues(joined.likes, "likedBy"))]),
                 "owner")
  IN Project(added, {"video.url", "title", "description", "views", "createdAt",
                     "duration", "comments", "owner", "likesCount", "isLiked",
                     "isSubscribed", "subscribersCount"})

\* The response of getVideoById (video.controller.js:280-411) to a request
\* by reqUser (undefined when the request carries no identity) with query
\* parameter guest, as a function of the videos collection.
DetailResponseIn(videoColl, reqUser, guest, videoId) ==
  LET op == "getVideoById"
      isGuest == guest = "true"
      matched == {v \in Range(videoColl) : v._id = ObjectId(videoId)}
      video == {VideoPipeline(v, reqUser, isGuest) : v \in matched}
  IN IF IsBlankId(videoId) THEN Fail(op, 400)
     ELSE IF ~isValidObjectId(videoId) THEN Fail(op, 400)
     ELSE IF NotLength(video) THEN Fail(op, 404)
     ELSE ApiResponse(op, 200, FirstOf(video))

DetailResponse(reqUser, guest, videoId) ==
  DetailResponseIn(videos, reqUser, guest, videoId)

getVideoById(reqUser, guest, videoId) ==
  /\ UNCHANGED client
  /\ resp' = DetailResponse(reqUser, guest, videoId)
  /\ calls' = (IF resp'.status = 400 THEN 0 ELSE 1)
  /\ UNCHANGED <<storeVars, now, reqs, lastView>>

\* ---------------------------------------------------- getUserChannelProfile
\* {$size: "$field"}: the operand must be an array; a field the document does
\* not have is an error of the pipeline.
SizeOperandOk(doc, field) == field \in DOMAIN doc

\* {$size: "text"} and {$in: [x, "text"]}: a string without the $ sign is a
\* string literal, never an array, and an error of the pipeline.
LiteralIsArray(text) == FALSE

\* The stages of user.controllers.js:417-463 on one matched user: the
\* document they produce, when no expression fails.
ChannelPipeline(user, reqUser) ==
  LET joined == AddFields(user,
                  [subcription  |-> Lookup("subcription", "channel", user._id),
                   subscribedTo |-> Lookup("subcription", "subscriber", user._id)])
      added == AddFields(joined,
                 [subscribersCount |-> Cardinality(joined.subscribers),
                  channelSubscribedToCount |-> Cardinality(joined.subscribedTo),
                  isSubscribed |-> In(reqUser,
                                      PathValues(joined.subscribers, "subscriber"))])
  IN Project(added, {"fullName", "username", "subscribersCount",
                     "channelSubscribedToCount", "isSubscribed", "avatar",
                     "coverImage", "email"})

\* Whether the $addFields stage of user.controllers.js:435-450 evaluates on
\* the document the two $lookup stages produce.
ChannelExpressionsOk(user) ==
  LET joined == AddFields(user, [subcription |-> {}, subscribedTo |-> {}])
  IN /\ SizeOperandOk(joined, "subscribers")
     /\ LiteralIsArray("subscribedTo")
     /\ LiteralIsArray("subscribers.subscriber")

\* The responses getUserChannelProfile (user.controllers.js:404-482) can give
\* to a request by reqUser for username. A failing expression rejects the
\* aggregate; the two literal operands are constants, which the store may
\* evaluate before it reads any document, so that with no matching user the
\* request ends 404 or with the pipeline's error.
ChannelResponses(reqUser, username) ==
  LET op == "getUserChannelProfile"
      matched == {u \in Range(users) : u.username = toLowerCase(username)}
      channel == {ChannelPipeline(u, reqUser) : u \in {m \in matched : ChannelExpressionsOk(m)}}
  IN IF username = "" THEN {Fail(op, 400)}
     ELSE IF \E u \in matched : ~ChannelExpressionsOk(u) THEN {Fail(op, 500)}
     ELSE IF NotLength(channel)
          THEN {Fail(op, 404)} \cup
               (IF LiteralIsArray("subscribedTo") THEN {} ELSE {Fail(op, 500)})
     ELSE {ApiResponse(op, 200, FirstOf(channel))}

getUserChannelProfile(reqUser, username) ==
  /\ UNCHANGED client
  /\ resp' \in ChannelResponses(reqUser, username)
  /\ calls' = (IF resp'.status = 400 THEN 0 ELSE 1)
  /\ UNCHANGED <<storeVars, now, reqs, lastView>>

\* ------------------------------------------------------ togglePublishStatus
\* video.controller.js:527-546. findById casts the id: a string that is no
\* ObjectId is a cast error, which rejects the request.
togglePublishStatus(videoId) ==
  LET op == "togglePublishStatus"
      video == findById(videos, ObjectId(videoId))
      saved == [video EXCEPT !.isPublished = ~@]
  IN
  /\ UNCHANGED client
  /\ UNCHANGED <<users, likes, comments, subcriptions, media, nextFile, nextVideo, now,
                 reqs, lastView>>
  /\ IF ~isValidObjectId(videoId)
     THEN resp' = Fail(op, 500) /\ calls' = 1 /\ UNCHANGED videos
     ELSE IF video = NullDoc
     THEN resp' = Fail(op, 404) /\ calls' = 1 /\ UNCHANGED videos
     ELSE /\ videos' = [videos EXCEPT ![video._id] = saved]
          /\ calls' = 2
          /\ resp' = Ok(op, 200, saved)

\* -------------------------------------------------------------- deleteVideo
\* Like.deleteMany({video}) / Comment.deleteMany({video}): the collection
\* without the documents that reference the video.
deleteMany(coll, video) == {d \in coll : d.video # video}

\* video.controller.js:497-524, when no other request runs between its
\* calls. findById casts the id: a string that is no ObjectId is a cast
\* error, which rejects the request. The four removals are started together
\* and awaited with Promise.all, which rejects only when one of them throws;
\* deleteFromCloudinary never does.
deleteVideo(videoId, videoDestroyOk, thumbnailDestroyOk) ==
  LET op == "deleteVideo"
      currentVideo == findById(videos, ObjectId(videoId))
      destroyed == Destroyed(currentVideo.video.fileId, videoDestroyOk)
                     \cup Destroyed(currentVideo.thumbnail.fileId, thumbnailDestroyOk)
  IN
  /\ UNCHANGED client
  /\ UNCHANGED <<users, subcriptions, nextFile, nextVideo, now, reqs, lastView>>
  /\ IF ~isValidObjectId(videoId)
     THEN resp' = Fail(op, 500) /\ calls' = 1 /\ UNCHANGED <<videos, likes, comments, media>>
     ELSE IF currentVideo = NullDoc
     THEN resp' = Fail(op, 404) /\ calls' = 1 /\ UNCHANGED <<videos, likes, comments, media>>
     ELSE /\ videos' = [v \in DOMAIN videos \ {currentVideo._id} |-> videos[v]]
          /\ likes' = deleteMany(likes, ObjectId(videoId))
          /\ comments' = deleteMany(comments, ObjectId(videoId))
          /\ media' = media \ destroyed
          /\ calls' = 4
          /\ resp' = Ok(op, 200, NullDoc)

\* ----------------------------------------------------- requests in flight
\* A handler is an async function: between two awaits other requests run.
\* A request in flight is a number with the handler's position (pc, the call
\* it is about to issue) and its local variables.
RequestIds == 1..MaxRequests
Idle(r) == r \notin DOMAIN reqs
At(r, op, pc) == r \in DOMAIN reqs /\ reqs[r].op = op /\ reqs[r].pc = pc
Begin(r, locals) ==
  reqs' = [x \in DOMAIN reqs \cup {r} |-> IF x = r THEN locals ELSE reqs[x]]
Goto(r, locals) == reqs' = [reqs EXCEPT ![r] = locals]
End(r) == reqs' = [x \in DOMAIN reqs \ {r} |-> reqs[x]]

\* ------------------------------------------- registerUser, call by call
\* user.controllers.js:98-130: validation, User.findOne on the username and
\* the email of the request, the test for the avatar path.
registerUser_findOne(r, username, email, avatarLocalPath, coverLocalPath) ==
  LET op == "registerUser"
      existedUser == {u \in DOMAIN users :
                        users[u].username = username \/ users[u].email = email}
  IN
  /\ UNCHANGED client
  /\ Idle(r)
  /\ Cardinality(DOMAIN users) < MaxUsers
  /\ UNCHANGED <<storeVars, now, lastView>>
  /\ IF username = "" \/ email = ""
     THEN resp' = Fail(op, 400) /\ calls' = 0 /\ UNCHANGED reqs
     ELSE IF existedUser # {}
     THEN resp' = Fail(op, 409) /\ calls' = 1 /\ UNCHANGED reqs
     ELSE IF avatarLocalPath = Undefined
     THEN resp' = Fail(op, 400) /\ calls' = 1 /\ UNCHANGED reqs
     ELSE /\ Begin(r, [op |-> op, pc |-> "uploadOnCloudinary", username |-> username,
                       email |-> email, avatarLocalpath |-> avatarLocalPath,
                       coverImageLocalpath |-> coverLocalPath])
          /\ UNCHANGED <<resp, calls>>

\* user.controllers.js:133-139: the two uploads and the test of the avatar.
registerUser_upload(r, avatarOk, coverOk) ==
  LET op == "registerUser"
      my == reqs[r]
      avatar == uploadOnCloudinary(my.avatarLocalpath, avatarOk, nextFile)
      coverNo == nextFile + Cardinality(Stored(<<avatar>>))
      coverImage == uploadOnCloudinary(my.coverImageLocalpath, coverOk, coverNo)
      uploaded == Stored(<<avatar, coverImage>>)
  IN
  /\ UNCHANGED client
  /\ At(r, op, "uploadOnCloudinary")
  /\ nextFile + 1 <= MaxFiles
  /\ media' = media \cup uploaded
  /\ nextFile' = nextFile + Cardinality(uploaded)
  /\ UNCHANGED <<users, videos, likes, comments, subcriptions, nextVideo, now, lastView>>
  /\ IF avatar = Null
     THEN resp' = Fail(op, 400) /\ calls' = 1 /\ End(r)
     ELSE /\ Goto(r, [op |-> op, pc |-> "User.create", username |-> my.username,
                      email |-> my.email, avatar |-> avatar, coverImage |-> coverImage])
          /\ UNCHANGED <<resp, calls>>

\* user.controllers.js:141-162: User.create with the lower-cased username,
\* User.findById of the new record, and the response.
registerUser_create(r) ==
  LET op == "registerUser"
      my == reqs[r]
      id == <<"user", Cardinality(DOMAIN users) + 1>>
      doc == [_id |-> id, username |-> toLowerCase(my.username), email |-> my.email,
              avatar |-> my.avatar, coverImage |-> my.coverImage,
              watchHistory |-> << >>]
  IN
  /\ UNCHANGED client
  /\ At(r, op, "User.create")
  /\ End(r)
  /\ UNCHANGED <<videos, likes, comments, subcriptions, media, nextFile, nextVideo, now,
                 lastView>>
  /\ IF ~UniqueIndexOk(doc)
     THEN resp' = Fail(op, 500) /\ calls' = 2 /\ UNCHANGED users
     ELSE /\ Cardinality(DOMAIN users) < MaxUsers
          /\ users' = [u \in DOMAIN users \cup {id} |-> IF u = id THEN doc ELSE users[u]]
          /\ calls' = 3
          /\ resp' = Ok(op, 201, [_id |-> id, username |-> doc.username,
                                  email |-> my.email])

\* ------------------------------------------- deleteVideo, call by call
\* A faulty variant: the result of the primary delete is not looked at.
PrimaryDeleteUnchecked(deleted) == FALSE

\* if (!deleteVideo) (video.controller.js:510)
PrimaryDeleteFailed(deleted) == deleted = NullDoc

\* video.controller.js:498-504: const currentVideo = await Video.findById(videoId)
deleteVideo_findById(r, videoId) ==
  LET op == "deleteVideo"
      currentVideo == findById(videos, ObjectId(videoId))
  IN
  /\ UNCHANGED client
  /\ Idle(r)
  /\ UNCHANGED <<storeVars, now, lastView>>
  /\ IF ~isValidObjectId(videoId)
     THEN resp' = Fail(op, 500) /\ calls' = 1 /\ UNCHANGED reqs
     ELSE IF currentVideo = NullDoc
     THEN resp' = Fail(op, 404) /\ calls' = 1 /\ UNCHANGED reqs
     ELSE /\ Begin(r, [op |-> op, pc |-> "findByIdAndDelete", videoId |-> videoId,
                       currentVideo |-> currentVideo])
          /\ UNCHANGED <<resp, calls>>

\* video.controller.js:507-510: const deleteVideo = await
\* Video.findByIdAndDelete(videoId), the document it removed or null.
deleteVideo_findByIdAndDelete(r) ==
  LET op == "deleteVideo"
      my == reqs[r]
      deleted == findById(videos, ObjectId(my.videoId))
  IN
  /\ UNCHANGED client
  /\ At(r, op, "findByIdAndDelete")
  /\ videos' = [v \in DOMAIN videos \ {ObjectId(my.videoId)} |-> videos[v]]
  /\ UNCHANGED <<users, likes, comments, subcriptions, media, nextFile, nextVideo, now,
                 lastView>>
  /\ IF PrimaryDeleteFailed(deleted)
     THEN resp' = Fail(op, 500) /\ calls' = 2 /\ End(r)
     ELSE /\ Goto(r, [op |-> op, pc |-> "Promise.all", videoId |-> my.videoId,
                      currentVideo |-> my.currentVideo, deleteVideo |-> deleted])
          /\ UNCHANGED <<resp, calls>>

\* video.controller.js:513-523: the four removals, started together, and the
\* response.
deleteVideo_cascade(r, videoDestroyOk, thumbnailDestroyOk) ==
  LET op == "deleteVideo"
      my == reqs[r]
      destroyed == Destroyed(my.currentVideo.video.fileId, videoDestroyOk)
                     \cup Destroyed(my.currentVideo.thumbnail.fileId, thumbnailDestroyOk)
  IN
  /\ UNCHANGED client
  /\ At(r, op, "Promise.all")
  /\ likes' = deleteMany(likes, ObjectId(my.videoId))
  /\ comments' = deleteMany(comments, ObjectId(my.videoId))
  /\ media' = media \ destroyed
  /\ resp' = Ok(op, 200, NullDoc)
  /\ calls' = 4
  /\ End(r)
  /\ UNCHANGED <<users, videos, subcriptions, nextFile, nextVideo, now, lastView>>

\* -------------------------------------- updateVideoViews, call by call
\* A faulty variant: the counter is written back from the document the
\* request has read.
IncFromLoaded(stored, loaded) == loaded + 1

\* { $inc: { views: 1 } } (video.controller.js:637): the store adds 1 to the
\* counter it holds, whatever the request has read.
Inc(stored, loaded) == stored + 1

\* video.controller.js:611-622: validation and Video.findById(videoId)
updateVideoViews_findVideo(r, reqUser, videoId) ==
  LET op == "updateVideoViews"
      video == findById(videos, ObjectId(videoId))
  IN
  /\ UNCHANGED client
  /\ Idle(r)
  /\ UNCHANGED <<storeVars, now, lastView>>
  /\ IF ~isValidObjectId(videoId)
     THEN resp' = Fail(op, 400) /\ calls' = 0 /\ UNCHANGED reqs
     ELSE IF video = NullDoc
     THEN resp' = Fail(op, 404) /\ calls' = 1 /\ UNCHANGED reqs
     ELSE /\ Begin(r, [op |-> op, pc |-> "User.findById", userId |-> reqUser,
                       videoId |-> videoId, video |-> video])
          /\ UNCHANGED <<resp, calls>>

\* video.controller.js:625-633: User.findById(userId) and the search of the
\* history it returned.
updateVideoViews_findUser(r) ==
  LET op == "updateVideoViews"
      my == reqs[r]
      user == findById(users, my.userId)
      watchHistoryEntry == FindWatchHistoryEntry(user.watchHistory, my.videoId)
  IN
  /\ UNCHANGED client
  /\ At(r, op, "User.findById")
  /\ UNCHANGED <<storeVars, now, lastView>>
  /\ IF user = NullDoc
     THEN resp' = Fail(op, 404) /\ calls' = 2 /\ End(r)
     ELSE /\ Goto(r, [op |-> op,
                      pc |-> IF watchHistoryEntry = 0 THEN "Video.findByIdAndUpdate"
                             ELSE "user.save",
                      userId |-> my.userId, videoId |-> my.videoId, video |-> my.video,
                      user |-> user, watchHistoryEntry |-> watchHistoryEntry])
          /\ UNCHANGED <<resp, calls>>

\* video.controller.js:637: Video.findByIdAndUpdate(videoId, {$inc: {views: 1}})
updateVideoViews_inc(r) ==
  LET op == "updateVideoViews"
      my == reqs[r]
      V == ObjectId(my.videoId)
  IN
  /\ UNCHANGED client
  /\ At(r, op, "Video.findByIdAndUpdate")
  /\ videos' = IF V \in DOMAIN videos
               THEN [videos EXCEPT ![V].views = Inc(@, my.video.views)]
               ELSE videos
  /\ Goto(r, [my EXCEPT !.pc = "user.save"])
  /\ UNCHANGED <<users, likes, comments, subcriptions, media, nextFile, nextVideo, now,
                 resp, calls, lastView>>

\* video.controller.js:638-654: the change of the history, user.save() and
\* the response. A pushed entry is saved as a $push onto the stored array.
\* A changed watchedAt is saved as a $set on the entry's position, under the
\* version of the array the request has read: when the array has changed
\* since, the save may be rejected.
updateVideoViews_save(r) ==
  LET op == "updateVideoViews"
      my == reqs[r]
      stored == users[my.userId]
      entry == [video |-> ObjectId(my.videoId), watchedAt |-> now]
      pushed == [stored EXCEPT !.watchHistory = Append(@, entry)]
      touched == [stored EXCEPT !.watchHistory[my.watchHistoryEntry].watchedAt = now]
      pair == <<my.userId, ObjectId(my.videoId)>>
      seen == [p \in DOMAIN lastView \cup {pair} |-> IF p = pair THEN now ELSE lastView[p]]
  IN
  /\ UNCHANGED client
  /\ At(r, op, "user.save")
  /\ End(r)
  /\ UNCHANGED <<videos, likes, comments, subcriptions, media, nextFile, nextVideo, now>>
  /\ IF my.watchHistoryEntry = 0
     THEN /\ Len(stored.watchHistory) < MaxHistory
          /\ users' = [users EXCEPT ![my.userId] = pushed]
          /\ lastView' = seen
          /\ calls' = 4
          /\ resp' = Ok(op, 200, [video |-> my.video, user |-> pushed])
     ELSE \/ /\ users' = [users EXCEPT ![my.userId] = touched]
             /\ lastView' = seen
             /\ calls' = 3
             /\ resp' = Ok(op, 200, [video |-> my.video, user |-> touched])
          \/ /\ stored.watchHistory # my.user.watchHistory
             /\ resp' = Fail(op, 500)
             /\ calls' = 3
             /\ UNCHANGED <<users, lastView>>

\* video.controller.js:637: Video.findByIdAndUpdate rejects (the store is not
\* reachable, the write is refused). The handler has no catch: the request
\* ends as a server error and nothing has been written.
updateVideoViews_incFails(r) ==
  LET op == "updateVideoViews"
  IN
  /\ UNCHANGED client
  /\ At(r, op, "Video.findByIdAndUpdate")
  /\ End(r)
  /\ resp' = Fail(op, 500)
  /\ calls' = 3
  /\ UNCHANGED <<storeVars, now, lastView>>

\* video.controller.js:642 and 646: user.save() rejects. The request ends as
\* a server error; what Video.findByIdAndUpdate has written before stays.
updateVideoViews_saveFails(r) ==
  LET op == "updateVideoViews"
      my == reqs[r]
  IN
  /\ UNCHANGED client
  /\ At(r, op, "user.save")
  /\ End(r)
  /\ resp' = Fail(op, 500)
  /\ calls' = (IF my.watchHistoryEntry = 0 THEN 4 ELSE 3)
  /\ UNCHANGED <<storeVars, now, lastView>>

\* -------------------------------------------------------------- updateVideo
\* A text field the request body leaves out.
UndefinedText == "(undefined)"

\* field === undefined || field?.trim() === ""
IsMissingText(field) == field = UndefinedText \/ field = ""

\* video.controller.js:415-494. An absent identity makes
\* req.user?._id.toString() undefined, which equals no owner.
updateVideo(reqUser, videoId, title, description, thumbnailLocalPath, uploadOk, destroyOk) ==
  LET op == "updateVideo"
      currentVideo == findById(videos, ObjectId(videoId))
      thumbnailFile == uploadOnCloudinary(thumbnailLocalPath, uploadOk, nextFile)
      uploaded == Stored(<<thumbnailFile>>)
      destroyed == Destroyed(currentVideo.thumbnail.fileId, destroyOk)
      text == AddFields(currentVideo, [title |-> title, description |-> description])
      video == IF thumbnailLocalPath = Undefined THEN text
               ELSE AddFields(text, [thumbnail |-> [fileId |-> thumbnailFile,
                                                    url |-> thumbnailFile]])
  IN
  /\ UNCHANGED client
  /\ UNCHANGED <<users, likes, comments, subcriptions, nextVideo, now, reqs, lastView>>
  /\ IF ~isValidObjectId(videoId)
     THEN resp' = Fail(op, 400) /\ calls' = 0 /\ UNCHANGED <<videos, media, nextFile>>
     ELSE IF currentVideo = NullDoc
     THEN resp' = Fail(op, 401) /\ calls' = 1 /\ UNCHANGED <<videos, media, nextFile>>
     ELSE IF IsMissingText(title) \/ IsMissingText(description)
     THEN resp' = Fail(op, 400) /\ calls' = 1 /\ UNCHANGED <<videos, media, nextFile>>
     ELSE IF reqUser = Undefined \/ ObjectIdToString(currentVideo.owner) # ObjectIdToString(reqUser)
     THEN resp' = Fail(op, 400) /\ calls' = 1 /\ UNCHANGED <<videos, media, nextFile>>
     ELSE IF thumbnailLocalPath # Undefined /\ thumbnailFile = Null
     THEN resp' = Fail(op, 501) /\ calls' = 1 /\ UNCHANGED <<videos, media, nextFile>>
     ELSE /\ nextFile + 1 <= MaxFiles
          /\ media' = IF thumbnailLocalPath = Undefined THEN media
                       ELSE (media \cup uploaded) \ destroyed
          /\ nextFile' = nextFile + Cardinality(uploaded)
          /\ videos' = [videos EXCEPT ![currentVideo._id] = video]
          /\ calls' = 2
          /\ resp' = Ok(op, 200, video)

\* -------------------------------------------------------------- getAllVideos
\* A numeric query parameter as the client sends it: digits, other text, or
\* nothing at all.
Digits(n)  == [kind |-> "digits", n |-> n]
Letters    == [kind |-> "letters", n |-> 0]
NoParam    == [kind |-> "undefined", n |-> 0]

\* parseInt(x, 10): a number, or NaN.
NaN == [nan |-> TRUE, n |-> 0]
parseInt(x) == IF x.kind = "digits" THEN [nan |-> FALSE, n |-> x.n] ELSE NaN

\* const { page = 1, limit = 10 } = req.query (video.controller.js:19)
WithDefault(x, n) == IF x.kind = "undefined" THEN Digits(n) ELSE x

\* mongoose-aggregate-paginate-v2: page = parseInt(options.page || 1) || 1,
\* limit = parseInt(options.limit) > 0 ? parseInt(options.limit) : 10.
PaginatePage(p)  == IF p.nan \/ p.n = 0 THEN 1 ELSE p.n
PaginateLimit(l) == IF ~l.nan /\ l.n > 0 THEN l.n ELSE DefaultLimit

\* The $search stage: the videos whose title holds the query text.
Search(docs, query) == {d \in docs : d.title = query}

\* The orders a $sort stage on an integer field can leave a set of documents
\* in: every arrangement sorted on the key, ties in any order.
SortedSeqs(docs, key, direction) ==
  {s \in [1..Cardinality(docs) -> docs] :
     /\ \A i, j \in DOMAIN s : i # j => s[i] # s[j]
     /\ \A i, j \in DOMAIN s :
          i < j => direction * s[i][key] <= direction * s[j][key]}

\* $lookup of the owner with $project {username, avatar.url}, then $unwind:
\* one document per owner found, none for a video whose owner is gone.
WithOwnerDetails(video) ==
  {AddFields(video, [ownerDetails |-> Project(u, {"username", "avatar.url"})]) :
     u \in Lookup("users", "_id", video.owner)}

Min(a, b) == IF a < b THEN a ELSE b

\* A faulty variant: a listing without the published-only stage.
UnfilteredDocs(docs) == docs

\* A faulty variant: oldest first when no sort is asked for.
DirectionOldestFirst(sortBy, sortType) ==
  IF sortBy # "" /\ sortType # "" THEN (IF sortType = "asc" THEN 1 ELSE -1) ELSE 1

\* pipeline.push({ $match: { isPublished: true } }) (video.controller.js:54)
PublishedOnly(docs) == {v \in docs : v.isPublished = TRUE}

\* The $sort stage of video.controller.js:57-66: the requested field and
\* direction when both are given, else creation time, newest first.
SortKey(sortBy, sortType) ==
  IF sortBy # "" /\ sortType # "" THEN sortBy ELSE "createdAt"
SortDirection(sortBy, sortType) ==
  IF sortBy # "" /\ sortType # "" THEN (IF sortType = "asc" THEN 1 ELSE -1) ELSE -1

\* The responses of getAllVideos (video.controller.js:17-107).
AllVideosResponses(page, limit, query, sortBy, sortType, userId) ==
  LET op == "getAllVideos"
      searched == IF query = "" THEN Range(videos) ELSE Search(Range(videos), query)
      owned == IF userId = EmptyId THEN searched
               ELSE {v \in searched : v.owner = ObjectId(userId)}
      published == PublishedOnly(owned)
      key == SortKey(sortBy, sortType)
      direction == SortDirection(sortBy, sortType)
      joined == UNION {WithOwnerDetails(v) : v \in published}
      pageNo == PaginatePage(parseInt(WithDefault(page, 1)))
      size == PaginateLimit(parseInt(WithDefault(limit, DefaultLimit)))
      skip == (pageNo - 1) * size
  IN IF userId # EmptyId /\ ~isValidObjectId(userId) THEN {Fail(op, 400)}
     ELSE IF skip < 0 THEN {Fail(op, 500)}
     ELSE {Ok(op, 200, [docs |-> SubSeq(s, skip + 1, Min(skip + size, Len(s))),
                         totalDocs |-> Len(s), page |-> pageNo, limit |-> size]) :
             s \in SortedSeqs(joined, key, direction)}

getAllVideos(page, limit, query, sortBy, sortType, userId) ==
  /\ UNCHANGED client
  /\ resp' \in AllVideosResponses(page, limit, query, sortBy, sortType, userId)
  /\ calls' = (IF resp'.status = 400 THEN 0 ELSE 1)
  /\ UNCHANGED <<storeVars, now, reqs, lastView>>

\* ------------------------------------------------------------- getNextVideos
\* $sample {size}: size documents picked at random, all of them when there
\* are no more than size.
Sample(docs, size) ==
  {picked \in SUBSET docs : Cardinality(picked) = Min(size, Cardinality(docs))}

\* The responses of getNextVideos (video.controller.js:549-606); the array of
\* the response is given as the set of its documents.
NextVideosResponses(videoId) ==
  LET op == "getNextVideos"
      video == findById(videos, ObjectId(videoId))
      matched == {v \in Range(videos) :
                    v._id # ObjectId(videoId) /\ v.isPublished = TRUE}
  IN IF ~isValidObjectId(videoId) THEN {Fail(op, 400)}
     ELSE IF video = NullDoc THEN {Fail(op, 404)}
     ELSE {Ok(op, 200, [docs |-> UNION {WithOwnerDetails(v) : v \in picked}]) :
             picked \in Sample(matched, SampleSize)}

getNextVideos(videoId) ==
  /\ UNCHANGED client
  /\ resp' \in NextVideosResponses(videoId)
  /\ calls' = (IF resp'.status = 400 THEN 0 ELSE IF resp'.status = 404 THEN 1 ELSE 2)
  /\ UNCHANGED <<storeVars, now, reqs, lastView>>

\* ------------------------------------------------------------ specifications
\* The ids a client can send: both spellings of every ObjectId the videos
\* collection can give, a string that is no ObjectId, and the empty string.
VideoIdStrings == IdStringsOf(VideoOids) \cup {MalformedId, EmptyId}

\* The registrations of this specification, in order: every field filled in,
\* an avatar that uploads, no cover image.
Viewers == <<[username |-> "alice", email |-> "a@x.io"],
             [username |-> "bob", email |-> "b@x.io"]>>

RegisterViewer ==
  \E i \in DOMAIN Viewers :
    /\ i = Cardinality(DOMAIN users) + 1
    /\ registerUser(Viewers[i].username, Viewers[i].email, LocalPath, Undefined,
                    TRUE, FALSE)

\* A well-formed publication by a registered user, both uploads succeeding.
PublishCats ==
  \E reqUser \in DOMAIN users :
    publishAVideo(reqUser, "cats", "true", LocalPath, LocalPath, TRUE, TRUE)

View ==
  \E reqUser \in DOMAIN users \cup {Undefined}, videoId \in VideoIdStrings :
    updateVideoViews(reqUser, videoId)

\* Requests that register, publish and watch, one at a time.
NextView == RegisterViewer \/ PublishCats \/ View \/ Tick
SpecView == Init /\ [][NextView]_vars

\* A registration of the next viewer under any casing of the username.
RegisterCased ==
  \E i \in DOMAIN Viewers, username \in Usernames :
    /\ i = Cardinality(DOMAIN users) + 1
    /\ toLowerCase(username) = Viewers[i].username
    /\ registerUser(username, Viewers[i].email, LocalPath, Undefined, TRUE, FALSE)

\* A well-formed publication, published or not.
PublishAny ==
  \E reqUser \in DOMAIN users, isPublished \in {"true", "false"} :
    publishAVideo(reqUser, "cats", isPublished, LocalPath, LocalPath, TRUE, TRUE)

\* The identity a request can carry: a registered user, or none.
Identities == DOMAIN users \cup {Undefined}

\* The references a like or a subscription can hold for its user.
UserRefs == DOMAIN users \cup {Null, Undefined}

Like ==
  \E video \in DOMAIN videos, likedBy \in UserRefs : likeCreate(video, likedBy)

Subscribe ==
  \E subscriber \in UserRefs, channel \in DOMAIN users :
    subcriptionCreate(subscriber, channel)

GuestDetail == \E videoId \in VideoIdStrings : getVideoByIdForGuest(videoId)

Detail ==
  \E reqUser \in Identities, guest \in {"true", "false"}, videoId \in VideoIdStrings :
    getVideoById(reqUser, guest, videoId)

Profile ==
  \E reqUser \in Identities, username \in Usernames \cup {""} :
    getUserChannelProfile(reqUser, username)

\* Requests that fill the store and read one video or one channel.
NextDetail ==
  RegisterCased \/ PublishAny \/ Like \/ Subscribe \/ GuestDetail \/ Detail \/ Profile
SpecDetail == Init /\ [][NextDetail]_vars

Toggle == \E videoId \in VideoIdStrings : togglePublishStatus(videoId)

PageParams == {NoParam, Digits(1), Digits(2)}
SortFields == {"", "createdAt", "views"}
SortTypes  == {"", "asc", "desc"}

List ==
  \E page \in PageParams, limit \in PageParams, query \in Titles \cup {""},
     sortBy \in SortFields, sortType \in SortTypes,
     userId \in IdStringsOf(UserOids) \cup {MalformedId, EmptyId} :
    getAllVideos(page, limit, query, sortBy, sortType, userId)

NextVideos == \E videoId \in VideoIdStrings : getNextVideos(videoId)

\* Requests that publish, toggle, and read videos in every way there is.
NextRead ==
  RegisterViewer \/ PublishAny \/ Toggle \/ GuestDetail \/ Detail \/ List \/ NextVideos
SpecRead == Init /\ [][NextRead]_vars

Comment == \E video \in DOMAIN videos : commentCreate(video)

Delete ==
  \E videoId \in VideoIdStrings, videoDestroyOk \in BOOLEAN, thumbnailDestroyOk \in BOOLEAN :
    deleteVideo(videoId, videoDestroyOk, thumbnailDestroyOk)

\* A complete update by anyone, with or without a new thumbnail.
Retitle ==
  \E reqUser \in Identities, videoId \in VideoIdStrings,
     thumbnailLocalPath \in LocalPaths, uploadOk \in BOOLEAN :
    updateVideo(reqUser, videoId, "dogs", "dogs", thumbnailLocalPath, uploadOk, TRUE)

\* A deletion by anyone, the media provider acknowledging.
Remove == \E videoId \in VideoIdStrings : deleteVideo(videoId, TRUE, TRUE)

\* Requests that publish, like, comment, delete and fetch the detail.
NextDelete ==
  RegisterViewer \/ PublishAny \/ Like \/ Comment \/ Delete \/ GuestDetail \/ Detail
SpecDelete == Init /\ [][NextDelete]_vars

\* Requests that publish, like, comment, and change or remove a video.
NextOwner ==
  RegisterViewer \/ PublishCats \/ Like \/ Comment \/ Retitle \/ Remove \/ Toggle
SpecOwner == Init /\ [][NextOwner]_vars

\* Pagination parameters as clients can send them: none, zero, a positive
\* number, text that is no number.
AnyPageParams == {NoParam, Digits(0), Digits(1), Letters}

ListAny ==
  \E page \in AnyPageParams, limit \in AnyPageParams,
     userId \in IdStringsOf(UserOids) \cup {MalformedId, EmptyId} :
    getAllVideos(page, limit, "", "", "", userId)

\* The ids of this specification: every ObjectId, and a string that is none.
EntryIds == {IdString("lower", o) : o \in VideoOids} \cup {MalformedId}

EntryDetail ==
  \E reqUser \in Identities, videoId \in EntryIds : getVideoById(reqUser, "false", videoId)
EntryGuestDetail == \E videoId \in EntryIds : getVideoByIdForGuest(videoId)
EntryUpdate ==
  \E reqUser \in Identities, videoId \in EntryIds, title \in {UndefinedText, "dogs"},
     description \in {"", "dogs"} :
    updateVideo(reqUser, videoId, title, description, Undefined, TRUE, TRUE)
EntryDelete == \E videoId \in EntryIds : deleteVideo(videoId, TRUE, TRUE)
EntryToggle == \E videoId \in EntryIds : togglePublishStatus(videoId)
EntryNextVideos == \E videoId \in EntryIds : getNextVideos(videoId)
EntryView ==
  \E reqUser \in Identities, videoId \in EntryIds : updateVideoViews(reqUser, videoId)

\* Requests to every video entry point, well-formed or not.
NextEntry ==
  \/ RegisterViewer \/ PublishCats \/ ListAny \/ EntryDetail \/ EntryGuestDetail
  \/ EntryUpdate \/ EntryDelete \/ EntryToggle \/ EntryNextVideos \/ EntryView
SpecEntry == Init /\ [][NextEntry]_vars

\* A publication whose fields, files and uploads can each be there or fail.
Publish ==
  \E reqUser \in DOMAIN users, title \in {"", "cats"}, isPublished \in {"", "true", "false"},
     videoLocalPath \in LocalPaths, thumbnailLocalPath \in LocalPaths,
     videoOk \in BOOLEAN, thumbnailOk \in BOOLEAN :
    publishAVideo(reqUser, title, isPublished, videoLocalPath, thumbnailLocalPath,
                  videoOk, thumbnailOk)

\* Requests that register and publish.
NextPublish == RegisterViewer \/ Publish
SpecPublish == Init /\ [][NextPublish]_vars

DeleteFind ==
  \E r \in RequestIds, videoId \in VideoIdStrings : deleteVideo_findById(r, videoId)
DeletePrimary == \E r \in RequestIds : deleteVideo_findByIdAndDelete(r)
DeleteCascade ==
  \E r \in RequestIds, videoDestroyOk \in BOOLEAN, thumbnailDestroyOk \in BOOLEAN :
    deleteVideo_cascade(r, videoDestroyOk, thumbnailDestroyOk)

\* Requests that publish, like and comment, and deleteVideo requests that
\* overlap.
NextDeleteRace ==
  \/ RegisterViewer \/ PublishCats \/ Like \/ Comment
  \/ DeleteFind \/ DeletePrimary \/ DeleteCascade
SpecDeleteRace == Init /\ [][NextDeleteRace]_vars

\* The ids of videos in the spelling ObjectId.toString() gives.
LowerIds == {IdString("lower", o) : o \in VideoOids}

ViewFindVideo ==
  \E r \in RequestIds, reqUser \in DOMAIN users, videoId \in LowerIds :
    updateVideoViews_findVideo(r, reqUser, videoId)
ViewFindUser == \E r \in RequestIds : updateVideoViews_findUser(r)
ViewInc == \E r \in RequestIds : updateVideoViews_inc(r)
ViewSave == \E r \in RequestIds : updateVideoViews_save(r)

\* The publication of the first video.
PublishOne == DOMAIN videos = {} /\ PublishCats

\* Viewers whose updateVideoViews requests for one video overlap.
NextViewRace ==
  RegisterViewer \/ PublishOne \/ Tick \/ ViewFindVideo \/ ViewFindUser \/ ViewInc \/ ViewSave
SpecViewRace == Init /\ [][NextViewRace]_vars

RegisterFind ==
  \E r \in RequestIds, username \in Usernames \cup {""}, email \in Emails,
     avatarLocalPath \in LocalPaths :
    registerUser_findOne(r, username, email, avatarLocalPath, Undefined)
RegisterUpload ==
  \E r \in RequestIds, avatarOk \in BOOLEAN : registerUser_upload(r, avatarOk, FALSE)
RegisterCreate == \E r \in RequestIds : registerUser_create(r)

\* registerUser requests, one after another or overlapping.
NextRegisterRace == RegisterFind \/ RegisterUpload \/ RegisterCreate
SpecRegisterRace == Init /\ [][NextRegisterRace]_vars

\* An updateVideoViews request that arrives when no other is in flight, as
\* long as no counter has reached MaxViews.
ViewAlone ==
  /\ reqs = << >>
  /\ \A v \in DOMAIN videos : videos[v].views < MaxViews
  /\ \E r \in RequestIds, reqUser \in Identities, videoId \in LowerIds \cup {MalformedId} :
       updateVideoViews_findVideo(r, reqUser, videoId)
ViewIncFails == \E r \in RequestIds : updateVideoViews_incFails(r)
ViewSaveFails == \E r \in RequestIds : updateVideoViews_saveFails(r)

\* updateVideoViews requests, one at a time, whose writes can be rejected by
\* the store.
NextViewFail ==
  \/ RegisterViewer \/ PublishOne \/ Tick
  \/ ViewAlone \/ ViewFindUser \/ ViewInc \/ ViewSave \/ ViewIncFails \/ ViewSaveFails
SpecViewFail == Init /\ [][NextViewFail]_vars

Login ==
  \E username \in {"", "alice", "bob"}, email \in {"", "a@x.io"}, passwordOk \in BOOLEAN :
    loginUser(username, email, passwordOk)
Logout == \E reqUser \in DOMAIN users : logoutUser(reqUser)
Refresh ==
  \E incomingRefreshToken \in RefreshTokens \cup {GarbageToken, Undefined} :
    refreshAccessToken(incomingRefreshToken)

\* Users that log in, refresh their tokens and log out, one request at a
\* time.
NextSession == RegisterViewer \/ Tick \/ Login \/ Logout \/ Refresh
SpecSession == Init /\ [][NextSession]_vars

\* Requests that publish at different times, toggle, and list.
NextList == RegisterViewer \/ PublishAny \/ Toggle \/ Tick \/ List
SpecList == Init /\ [][NextList]_vars

\* ------------------------------------------------------------------- claims
\* The viewers whose updateVideoViews call for video v has succeeded.
ViewersOf(v) == {u \in DOMAIN users : <<u, v>> \in DOMAIN lastView}

\* The positions of viewer u's watch history that hold video v.
EntriesOf(u, v) ==
  {i \in 1..Len(users[u].watchHistory) : users[u].watchHistory[i].video = v}

\* C1: after any sequence of updateVideoViews calls, one at a time, the view
\* counter of every video (0 when published) equals the number of distinct
\* viewers that called it for that video.
C1_ViewsCountDistinctViewers ==
  \A v \in DOMAIN videos : videos[v].views = Cardinality(ViewersOf(v))

\* C2: after any sequence of updateVideoViews calls, one at a time, a viewer's
\* watch history holds exactly one entry for each video the viewer called it
\* for, that entry's watchedAt is the time of the viewer's most recent call
\* for the video, and the history never gets shorter.
C2_OneEntryPerVideo ==
  \A u \in DOMAIN users : \A v \in DOMAIN videos :
    /\ Cardinality(EntriesOf(u, v)) = (IF <<u, v>> \in DOMAIN lastView THEN 1 ELSE 0)
    /\ \A i \in EntriesOf(u, v) :
         users[u].watchHistory[i].watchedAt = lastView[<<u, v>>]

C2_HistoryUpsert ==
  [][ /\ C2_OneEntryPerVideo'
      /\ \A u \in DOMAIN users :
           Len(users'[u].watchHistory) >= Len(users[u].watchHistory) ]_vars

\* The Like records of video v, the Subscription records of channel c and
\* the Subscription records held by subscriber u.
LikesOf(v)       == {l \in likes : l.video = v}
SubscribersOf(c) == {x \in subcriptions : x.channel = c}
SubscribedTo(u)  == {x \in subcriptions : "subscriber" \in DOMAIN x /\ x.subscriber = u}
LikedBy(v, u)    == \E l \in LikesOf(v) : "likedBy" \in DOMAIN l /\ l.likedBy = u
Subscribed(u, c) == \E x \in SubscribersOf(c) : "subscriber" \in DOMAIN x /\ x.subscriber = u

\* The ids of existing videos, as a client can spell them.
Existing(videoId) == isValidObjectId(videoId) /\ ObjectId(videoId) \in DOMAIN videos

\* A response that carries a document with the field set to the value.
Has(doc, field, value) == field \in DOMAIN doc /\ doc[field] = value
Succeeded(r) == r.status = 200 /\ "data" \in DOMAIN r

\* C3: a guest detail fetch for the id of no video, or of an unpublished
\* video, ends with Not-Found (404).
C3_GuestNotFound ==
  [][ \A videoId \in IdStringsOf(VideoOids) :
        ( /\ getVideoByIdForGuest(videoId)
          /\ ~Existing(videoId) \/ ~videos[ObjectId(videoId)].isPublished )
        => resp'.status = 404 ]_vars

\* C4: the guest detail fetch of a published video V with owner O returns a
\* record with isLiked = false, isSubscribed = false, likesCount the number of
\* Like records of V and owner.subscribersCount the number of Subscription
\* records whose channel is O.
C4_GuestDetailRecord ==
  [][ \A videoId \in IdStringsOf(VideoOids) :
        ( /\ getVideoByIdForGuest(videoId)
          /\ Existing(videoId) /\ videos[ObjectId(videoId)].isPublished )
        => /\ Succeeded(resp')
           /\ Has(resp'.data, "isLiked", FALSE)
           /\ \/ Has(resp'.data, "isSubscribed", FALSE)
              \/ "owner" \in DOMAIN resp'.data /\ Has(resp'.data.owner, "isSubscribed", FALSE)
           /\ Has(resp'.data, "likesCount", Cardinality(LikesOf(ObjectId(videoId))))
           /\ "owner" \in DOMAIN resp'.data
           /\ Has(resp'.data.owner, "subscribersCount",
                  Cardinality(SubscribersOf(videos[ObjectId(videoId)].owner))) ]_vars

\* The video is published, or the caller owns it.
VisibleTo(v, caller) == videos[v].isPublished \/ videos[v].owner = caller

\* C5: no read operation (getVideoById, getVideoByIdForGuest, getAllVideos,
\* getNextVideos) returns the data of an unpublished video to a caller who is
\* not its owner.
C5_UnpublishedHidden ==
  [][ /\ \A reqUser \in Identities, guest \in {"true", "false"},
            videoId \in IdStringsOf(VideoOids) :
           (getVideoById(reqUser, guest, videoId) /\ Succeeded(resp'))
           => VisibleTo(resp'.data._id, reqUser)
      /\ (resp'.op = "getVideoByIdForGuest" /\ Succeeded(resp'))
           => videos[resp'.data._id].isPublished
      /\ (resp'.op = "getAllVideos" /\ Succeeded(resp'))
           => \A i \in DOMAIN resp'.data.docs :
                videos[resp'.data.docs[i]._id].isPublished
      /\ (resp'.op = "getNextVideos" /\ Succeeded(resp'))
           => \A d \in resp'.data.docs : videos[d._id].isPublished ]_vars

\* The videos collection without video v.
Without(v) == [w \in DOMAIN videos \ {v} |-> videos[w]]

\* C6: to a guest, a detail fetch for the id of an unpublished video gives
\* the response it would give were there no such video, in both guest paths
\* (getVideoByIdForGuest, and getVideoById with guest=true).
C6_UnpublishedIndistinguishable ==
  [][ \A videoId \in IdStringsOf(VideoOids) :
        (Existing(videoId) /\ ~videos[ObjectId(videoId)].isPublished)
        => /\ getVideoByIdForGuest(videoId)
                => resp' = GuestResponseIn(Without(ObjectId(videoId)), videoId)
           /\ getVideoById(Undefined, "true", videoId)
                => resp' = DetailResponseIn(Without(ObjectId(videoId)), Undefined,
                                            "true", videoId) ]_vars

\* C7: for an authenticated viewer U and an existing video V with owner O,
\* getVideoById returns a record with likesCount the number of Like records
\* of V, isLiked true exactly when a Like (V, U) exists, owner.subscribersCount
\* the number of Subscription records with channel O, and owner.isSubscribed
\* true exactly when a Subscription (U, O) exists.
C7_DetailRecord ==
  [][ \A reqUser \in DOMAIN users, guest \in {"true", "false"},
         videoId \in IdStringsOf(VideoOids) :
        (getVideoById(reqUser, guest, videoId) /\ Existing(videoId))
        => LET V == ObjectId(videoId)
               O == videos[V].owner
           IN /\ Succeeded(resp')
              /\ Has(resp'.data, "likesCount", Cardinality(LikesOf(V)))
              /\ Has(resp'.data, "isLiked", LikedBy(V, reqUser))
              /\ "owner" \in DOMAIN resp'.data
              /\ Has(resp'.data.owner, "subscribersCount", Cardinality(SubscribersOf(O)))
              /\ Has(resp'.data.owner, "isSubscribed", Subscribed(reqUser, O)) ]_vars

\* The registered user a username, in any casing, names.
Registered(username) == {c \in DOMAIN users : users[c].username = toLowerCase(username)}

\* C8: for every existing user C, getUserChannelProfile returns
\* subscribersCount the number of Subscription records whose channel is C and
\* channelSubscribedToCount the number whose subscriber is C.
C8_ChannelCounts ==
  [][ \A reqUser \in Identities, C \in DOMAIN users :
        getUserChannelProfile(reqUser, users[C].username)
        => /\ Succeeded(resp')
           /\ Has(resp'.data, "subscribersCount", Cardinality(SubscribersOf(C)))
           /\ Has(resp'.data, "channelSubscribedToCount",
                  Cardinality(SubscribedTo(C))) ]_vars

\* C9: with no viewer identity, the channel profile reports isSubscribed =
\* false and the video detail reports isSubscribed = false and isLiked =
\* false, whatever the store holds, references that are null or missing
\* included.
C9_AbsentIdentityMatchesNothing ==
  [][ /\ \A C \in DOMAIN users :
           getUserChannelProfile(Undefined, users[C].username)
           => Succeeded(resp') /\ Has(resp'.data, "isSubscribed", FALSE)
      /\ \A guest \in {"true", "false"}, videoId \in IdStringsOf(VideoOids) :
           (getVideoById(Undefined, guest, videoId) /\ Existing(videoId))
           => /\ Succeeded(resp')
              /\ Has(resp'.data, "isLiked", FALSE)
              /\ "owner" \in DOMAIN resp'.data
              /\ Has(resp'.data.owner, "isSubscribed", FALSE) ]_vars

\* C10: for a user registered under any casing of a username,
\* getUserChannelProfile with any casing of it returns the profile that the
\* call with the lower-case username returns.
C10_CaseInsensitiveLookup ==
  [][ \A reqUser \in Identities, username \in Usernames :
        (getUserChannelProfile(reqUser, username) /\ Registered(username) # {})
        => /\ Succeeded(resp')
           /\ resp' \in ChannelResponses(reqUser, toLowerCase(username)) ]_vars

\* C11: every video in a getAllVideos result has isPublished = true, for every
\* combination of search query, owner filter, sort field, sort direction,
\* page and limit.
C11_ListedArePublished ==
  [][ (resp'.op = "getAllVideos" /\ resp'.status = 200)
      => \A i \in DOMAIN resp'.data.docs :
           /\ Has(resp'.data.docs[i], "isPublished", TRUE)
           /\ videos'[resp'.data.docs[i]._id].isPublished ]_vars

\* A listing returned a video while the store held an unpublished one.
C11_Witness ==
  /\ resp.op = "getAllVideos" /\ resp.status = 200
  /\ Len(resp.data.docs) > 0
  /\ \E v \in DOMAIN videos : ~videos[v].isPublished

\* The published videos, by id, in every order that is creation time
\* descending.
NewestFirst ==
  LET P == {v \in DOMAIN videos : videos[v].isPublished}
  IN {s \in [1..Cardinality(P) -> P] :
        /\ \A i, j \in DOMAIN s : i # j => s[i] # s[j]
        /\ \A i, j \in DOMAIN s :
             i < j => videos[s[i]].createdAt >= videos[s[j]].createdAt}

\* The elements at positions (p-1)*n+1 .. p*n of sequence s, as far as it goes.
PageOf(s, p, n) ==
  [i \in 1..(Min(p * n, Len(s)) - Min((p - 1) * n, Len(s))) |-> s[(p - 1) * n + i]]

IdsOf(docs) == [i \in DOMAIN docs |-> docs[i]._id]

\* C12: with no filters and no sort parameters, getAllVideos with page p and
\* limit n returns exactly the elements at positions (p-1)*n+1 .. p*n of the
\* published videos ordered by creation time descending, and a page past the
\* end is an empty page, not an error.
C12_PageOfNewestFirst ==
  [][ \A p, n \in 1..2 :
        ( /\ resp'.op = "getAllVideos"
          /\ resp'.status = 200 => (resp'.data.page = p /\ resp'.data.limit = n)
          /\ getAllVideos(Digits(p), Digits(n), "", "", "", EmptyId) )
        => /\ resp'.status = 200
           /\ \E s \in NewestFirst : IdsOf(resp'.data.docs) = PageOf(s, p, n) ]_vars

\* The second page of one was listed, of two published videos created at
\* different times: it holds the older one.
C12_Witness ==
  /\ resp.op = "getAllVideos" /\ resp.status = 200
  /\ resp.data.page = 2 /\ resp.data.limit = 1
  /\ \E v, w \in DOMAIN videos :
       /\ videos[v].isPublished /\ videos[w].isPublished
       /\ videos[v].createdAt < videos[w].createdAt
       /\ IdsOf(resp.data.docs) = <<v>>

\* The ids of the videos that were published and deleted since: the store
\* numbers videos in order and never gives a number twice.
Deleted == {<<"video", n>> : n \in 1..(nextVideo - 1)} \ DOMAIN videos

\* C13: after a deleteVideo call on video V has completed successfully, no
\* Like record and no Comment record referencing V remains, and every later
\* detail fetch for V, authenticated or guest, ends with Not-Found (404).
C13_DeleteCascades ==
  [][ \A V \in Deleted' :
        /\ \A l \in likes' : l.video # V
        /\ \A c \in comments' : c.video # V
        /\ \A videoId \in IdStringsOf({V}) :
             /\ getVideoByIdForGuest(videoId) => resp'.status = 404
             /\ \A reqUser \in Identities, guest \in {"true", "false"} :
                  getVideoById(reqUser, guest, videoId) => resp'.status = 404 ]_vars

\* C15: updateVideo, deleteVideo and togglePublishStatus change or remove a
\* Video record only when the requesting user is the video's owner; a request
\* by any other user fails and leaves the record, its Likes and its Comments
\* unchanged.
C15_OwnerOnly ==
  [][ \A reqUser \in DOMAIN users, videoId \in IdStringsOf(DOMAIN videos) :
        LET V == ObjectId(videoId)
        IN ( /\ videos[V].owner # reqUser
             /\ \/ \E thumbnailLocalPath \in LocalPaths, uploadOk \in BOOLEAN :
                     updateVideo(reqUser, videoId, "dogs", "dogs", thumbnailLocalPath,
                                 uploadOk, TRUE)
                \/ deleteVideo(videoId, TRUE, TRUE)
                \/ togglePublishStatus(videoId) )
           => /\ resp'.status # 200
              /\ V \in DOMAIN videos' /\ videos'[V] = videos[V]
              /\ LikesOf(V)' = LikesOf(V)
              /\ {c \in comments' : c.video = V} = {c \in comments : c.video = V} ]_vars

\* A validation failure that came before any data-store call.
ValidationFailure(r, c) == r.status = 400 /\ c = 0

\* C16: in every video entry point a malformed identifier, a missing
\* required field or a malformed pagination parameter (not a number, or not
\* positive) ends the request with a validation failure before any data-store
\* call is issued.
C16_ValidatedBeforeStore ==
  [][ /\ ( \/ getVideoByIdForGuest(MalformedId)
           \/ \E reqUser \in Identities : getVideoById(reqUser, "false", MalformedId)
           \/ \E reqUser \in Identities, title \in {UndefinedText, "dogs"},
                 description \in {"", "dogs"} :
                updateVideo(reqUser, MalformedId, title, description, Undefined, TRUE, TRUE)
           \/ deleteVideo(MalformedId, TRUE, TRUE)
           \/ togglePublishStatus(MalformedId)
           \/ getNextVideos(MalformedId)
           \/ \E reqUser \in Identities : updateVideoViews(reqUser, MalformedId)
           \/ \E page \in AnyPageParams, limit \in AnyPageParams :
                getAllVideos(page, limit, "", "", "", MalformedId) )
         => ValidationFailure(resp', calls')
      /\ \A reqUser \in Identities, videoId \in EntryIds, title \in {UndefinedText, "dogs"},
            description \in {"", "dogs"} :
           ( /\ IsMissingText(title) \/ IsMissingText(description)
             /\ updateVideo(reqUser, videoId, title, description, Undefined, TRUE, TRUE) )
           => ValidationFailure(resp', calls')
      /\ \A page \in AnyPageParams, limit \in AnyPageParams,
            userId \in IdStringsOf(UserOids) \cup {EmptyId} :
           ( /\ page \in {Letters, Digits(0)} \/ limit \in {Letters, Digits(0)}
             /\ getAllVideos(page, limit, "", "", "", userId) )
           => ValidationFailure(resp', calls') ]_vars

\* C18: when, during deleteVideo, the removal of one or both stored media
\* objects fails at the media provider, the request ends with a failure;
\* deleteVideo reports success only when both removals were acknowledged.
C18_MediaFailureSurfaced ==
  [][ \A videoId \in IdStringsOf(DOMAIN videos), videoDestroyOk \in BOOLEAN,
         thumbnailDestroyOk \in BOOLEAN :
        ( /\ deleteVideo(videoId, videoDestroyOk, thumbnailDestroyOk)
          /\ ~(videoDestroyOk /\ thumbnailDestroyOk) )
        => resp'.status # 200 ]_vars

\* The number of uploads that succeed.
Successes(videoOk, thumbnailOk) ==
  (IF videoOk THEN 1 ELSE 0) + (IF thumbnailOk THEN 1 ELSE 0)

\* The files some user or video document refers to.
ReferencedFiles ==
  {users[u].avatar : u \in DOMAIN users} \cup {users[u].coverImage : u \in DOMAIN users}
    \cup {videos[v].video.fileId : v \in DOMAIN videos}
    \cup {videos[v].thumbnail.fileId : v \in DOMAIN videos}

\* C17: publishAVideo issues both uploads and creates a Video record only
\* when both succeeded; when one or both fail the request ends with one
\* failure, no Video record is created, nothing is uploaded again and what
\* was uploaded stays in the media store.
C17_PublishUploads ==
  [][ \A reqUser \in DOMAIN users, videoOk \in BOOLEAN, thumbnailOk \in BOOLEAN :
        publishAVideo(reqUser, "cats", "true", LocalPath, LocalPath, videoOk, thumbnailOk)
        => /\ media \subseteq media'
           /\ Cardinality(media' \ media) = Successes(videoOk, thumbnailOk)
           /\ IF videoOk /\ thumbnailOk
              THEN /\ resp'.status = 201
                   /\ DOMAIN videos' = DOMAIN videos \cup {resp'.data._id}
                   /\ resp'.data._id \notin DOMAIN videos
                   /\ media' \ media = {videos'[resp'.data._id].video.fileId,
                                         videos'[resp'.data._id].thumbnail.fileId}
              ELSE /\ resp'.status = 500
                   /\ videos' = videos ]_vars

\* A publication failed and left a file in the media store that no record
\* refers to.
C17_Witness ==
  /\ resp = Fail("publishAVideo", 500)
  /\ media \ ReferencedFiles # {}

\* C14: in deleteVideo the removal of Likes, Comments and the two stored
\* media objects starts only after the primary Video delete has succeeded:
\* if the video is not found or the primary delete returns nothing, the call
\* fails and has removed no Like, Comment or media object.
C14_CascadeAfterPrimaryDelete ==
  [][ /\ ( \/ \E r \in RequestIds, videoId \in VideoIdStrings :
                deleteVideo_findById(r, videoId)
           \/ \E r \in RequestIds : deleteVideo_findByIdAndDelete(r) )
         => (likes' = likes /\ comments' = comments /\ media' = media)
      /\ (likes' # likes \/ comments' # comments \/ media' # media)
         => \/ likes \subseteq likes' /\ comments \subseteq comments' /\ media \subseteq media'
            \/ \E r \in DOMAIN reqs :
                 /\ At(r, "deleteVideo", "Promise.all")
                 /\ reqs[r].deleteVideo # NullDoc
                 /\ r \notin DOMAIN reqs' ]_vars

\* A deleteVideo call has failed because its primary delete returned
\* nothing, and the files of the video are still in the media store.
C14_Witness ==
  /\ resp = Fail("deleteVideo", 500) /\ calls = 2
  /\ \E r \in DOMAIN reqs :
       /\ At(r, "deleteVideo", "Promise.all")
       /\ {reqs[r].currentVideo.video.fileId, reqs[r].currentVideo.thumbnail.fileId}
            \subseteq media

\* The history entries for video v, over all viewers.
AllEntriesOf(v) == {<<u, i>> \in (DOMAIN users) \X (1..MaxHistory) : i \in EntriesOf(u, v)}

\* The requests that have incremented the counter of v and not yet saved
\* the history entry they push.
Pushing(v) ==
  {r \in DOMAIN reqs : /\ At(r, "updateVideoViews", "user.save")
                       /\ reqs[r].watchHistoryEntry = 0
                       /\ ObjectId(reqs[r].videoId) = v}

\* C19: when two updateVideoViews requests for the same (viewer, video) pair
\* with no prior history entry interleave, the counter can be incremented
\* twice for the pair and the history can hold two entries for the video:
\* every request that read a history without the video increments and
\* appends on its own, so that the counter equals the number of entries,
\* duplicates included, plus the appends still to come.
C19_EveryReaderIncrements ==
  \A v \in DOMAIN videos :
    videos[v].views = Cardinality(AllEntriesOf(v)) + Cardinality(Pushing(v))

\* One viewer, one video, two interleaved requests: the counter is 2 and the
\* viewer's history holds the video twice.
C19_Witness ==
  \E u \in DOMAIN users, v \in DOMAIN videos :
    /\ videos[v].views = 2
    /\ Cardinality(EntriesOf(u, v)) = 2
    /\ AllEntriesOf(v) = {u} \X (1..2)
    /\ reqs = << >>

\* The stored user records that carry the username, in any casing, or the
\* email.
Taken(username, email) ==
  {u \in DOMAIN users : users[u].username = toLowerCase(username) \/ users[u].email = email}

\* C20: after any sequence of registerUser calls, sequential or interleaved,
\* no two user records share the same lower-cased username or the same
\* email; and a registration whose username (in any casing) or email is
\* already taken ends with status 409 and creates no record. The second
\* part is stated for the registrations that have passed validation and
\* have uploaded their avatar.
C20_UniqueRegistration ==
  [][ /\ \A u1 \in DOMAIN users', u2 \in DOMAIN users' :
          (\/ toLowerCase(users'[u1].username) = toLowerCase(users'[u2].username)
           \/ users'[u1].email = users'[u2].email) => u1 = u2
      /\ \A r \in DOMAIN reqs :
          (/\ At(r, "registerUser", "User.create")
           /\ r \notin DOMAIN reqs'
           /\ Taken(reqs[r].username, reqs[r].email) # {})
            => resp' = Fail("registerUser", 409) /\ users' = users ]_vars

\* C21: an updateVideoViews call for a (viewer, video) pair that already has
\* a history entry changes only that entry's watchedAt: the view counter of
\* every video, the number and order of the viewer's history entries, the
\* watchedAt of the viewer's other entries and every other user's history
\* are unchanged.
C21_RepeatViewTouchesOneEntry ==
  [][ \A u \in DOMAIN users, videoId \in IdStringsOf(DOMAIN videos) :
        (/\ updateVideoViews(u, videoId)
         /\ EntriesOf(u, ObjectId(videoId)) # {})
        => /\ videos' = videos
           /\ \E i \in EntriesOf(u, ObjectId(videoId)) :
                users' = [users EXCEPT ![u].watchHistory[i].watchedAt = now] ]_vars

\* C22: an updateVideoViews call that ends in failure (invalid id, video or
\* user not found, or a failed store write) leaves both the video's view
\* counter and the viewer's watch history unchanged: the counter and the
\* history are what they were when the call arrived, so that no increment
\* is committed without its history entry.
C22_FailureChangesNothing ==
  [][ /\ (resp' # resp /\ resp'.op = "updateVideoViews" /\ resp'.status # 200
          /\ reqs' = reqs)
        => UNCHANGED <<users, videos>>
      /\ \A r \in DOMAIN reqs :
          (/\ reqs[r].op = "updateVideoViews"
           /\ r \notin DOMAIN reqs'
           /\ resp'.status # 200)
          => /\ videos'[ObjectId(reqs[r].videoId)].views = reqs[r].video.views
             /\ "user" \in DOMAIN reqs[r]
                  => users'[reqs[r].userId].watchHistory = reqs[r].user.watchHistory
             /\ \A u \in DOMAIN users : users'[u].watchHistory = users[u].watchHistory ]_vars

\* C23: after any sequence of loginUser, refreshAccessToken and logoutUser
\* calls for a user, the refresh token most recently returned to the client
\* by loginUser or refreshAccessToken equals the token stored for that user,
\* so that the next refreshAccessToken with it succeeds, while every
\* earlier-issued refresh token, and every token after logoutUser, is
\* rejected with 401.
C23_LatestTokenOnly ==
  [][ /\ \A u \in DOMAIN users' :
          Held(u)'.last # Null => RefreshTokenOf(users'[u]) = Held(u)'.last
      /\ \A u \in DOMAIN users : \A t \in Held(u).issued :
          refreshAccessToken(t)
          => resp'.status = (IF t = Held(u).last THEN 200 ELSE 401) ]_vars

====
